---- MODULE Spec2Model ----
(***************************************************************************)
(* Task-name validation of cargo-make (src/lib/validator.rs).              *)
(*                                                                         *)
(* A name is a sequence of characters.  A character is a token of          *)
(* Alphabet; each token stands for one Unicode scalar value and carries    *)
(* its UTF-8 width, its whitespace property and its ASCII class, which is  *)
(* all the validator reads of a character.  String operations of the Rust  *)
(* standard library are modelled by what they compute: str::len and        *)
(* str::find count bytes, chars().enumerate() counts characters.           *)
(***************************************************************************)
EXTENDS Integers, Sequences, FiniteSets, TLC

(* ------------------------------ bounds -------------------------------- *)

\* Longest name enumerated exhaustively over ShortAlphabet.
MaxLen == 5

\* Longest name enumerated exhaustively over the whole Alphabet.
MaxWideLen == 4

\* Names around the length limit: a run of MAX_TASK_NAME_LENGTH - LongSlack
\* .. MAX_TASK_NAME_LENGTH letters, with an optional affix on each side.
LongSlack == 1

\* Longest name the step-by-step callers draw exhaustively from
\* ShortAlphabet, beside StepSamples.
StepLen == 1

(* ---------------------------- characters ------------------------------ *)

\* "a": an ASCII letter, "1": an ASCII digit, " ": the ASCII space,
\* "@": an ASCII character outside the permitted set,
\* "U+00E9": e-acute, a two-byte letter, "U+3000": the ideographic space,
\* a three-byte Unicode whitespace character.
Alphabet == {"a", "1", "-", "_", ":", " ", "@", "U+00E9", "U+3000"}

\* The characters the exhaustive enumeration draws from.
ShortAlphabet == {"a", "-", "_", ":", " ", "@"}

\* char::len_utf8
len_utf8(ch) ==
    CASE ch = "U+00E9" -> 2
      [] ch = "U+3000" -> 3
      [] OTHER -> 1

\* char::is_whitespace (the Unicode White_Space property)
is_whitespace(ch) == ch \in {" ", "U+3000"}

\* char::is_ascii_alphanumeric
is_ascii_alphanumeric(ch) == ch \in {"a", "1"}

(* ------------------------------ strings ------------------------------- *)

Min(S) == CHOOSE x \in S : \A y \in S : x <= y
Max(S) == CHOOSE x \in S : \A y \in S : x >= y

\* Number of bytes of the first n characters of s: the byte offset of the
\* character with (1-based) index n + 1.  A character takes 1 to 4 bytes.
byte_offset(s, n) ==
    LET wide(w) == Cardinality({i \in 1..n : len_utf8(s[i]) = w})
    IN  wide(1) + 2 * wide(2) + 3 * wide(3) + 4 * wide(4)

\* str::len: the length in bytes.
str_len(s) == byte_offset(s, Len(s))

\* str::is_empty
is_empty(s) == str_len(s) = 0

\* str::trim: the name without its leading and trailing whitespace.
trim(s) ==
    LET keep == {i \in 1..Len(s) : ~is_whitespace(s[i])}
    IN  IF keep = {} THEN <<>> ELSE SubSeq(s, Min(keep), Max(keep))

\* The (1-based) character indices at which pat occurs in s.
matches(s, pat) ==
    {i \in 1..(Len(s) - Len(pat) + 1) : SubSeq(s, i, i + Len(pat) - 1) = pat}

\* str::contains
contains(s, pat) == matches(s, pat) # {}

\* str::starts_with, str::ends_with
starts_with(s, pat) == Len(s) >= Len(pat) /\ SubSeq(s, 1, Len(pat)) = pat
ends_with(s, pat) ==
    Len(s) >= Len(pat) /\ SubSeq(s, Len(s) - Len(pat) + 1, Len(s)) = pat

\* Option<usize>
None == [some |-> FALSE]
Some(v) == [some |-> TRUE, value |-> v]
unwrap_or(opt, default) == IF opt.some THEN opt.value ELSE default

\* str::find: the byte offset of the first occurrence of pat in s.
find(s, pat) ==
    IF matches(s, pat) = {} THEN None
    ELSE Some(byte_offset(s, Min(matches(s, pat)) - 1))

\* str::split: the pieces between the leftmost non-overlapping occurrences
\* of sep, empty pieces included.
RECURSIVE split(_, _)
split(s, sep) ==
    IF matches(s, sep) = {} THEN <<s>>
    ELSE LET i == Min(matches(s, sep))
         IN  <<SubSeq(s, 1, i - 1)>> \o split(SubSeq(s, i + Len(sep), Len(s)), sep)

\* chars().next(), chars().last(): Option<char>
chars_next(s) == IF Len(s) = 0 THEN None ELSE Some(s[1])
chars_last(s) == IF Len(s) = 0 THEN None ELSE Some(s[Len(s)])

(* --------------------- TaskNameValidationError ------------------------ *)

MAX_TASK_NAME_LENGTH == 256

Ok == [tag |-> "Ok"]
Empty == [tag |-> "Empty"]
TooLong(length, max) == [tag |-> "TooLong", length |-> length, max |-> max]
InvalidWhitespace == [tag |-> "InvalidWhitespace"]
InvalidLeadingCharacter(character) ==
    [tag |-> "InvalidLeadingCharacter", character |-> character]
InvalidTrailingCharacter(character) ==
    [tag |-> "InvalidTrailingCharacter", character |-> character]
ConsecutiveNamespaceSeparators == [tag |-> "ConsecutiveNamespaceSeparators"]
LeadingNamespaceSeparator == [tag |-> "LeadingNamespaceSeparator"]
TrailingNamespaceSeparator == [tag |-> "TrailingNamespaceSeparator"]
InvalidCharacter(character, position) ==
    [tag |-> "InvalidCharacter", character |-> character, position |-> position]
InvalidNamespacePartLeading(part, character) ==
    [tag |-> "InvalidNamespacePartLeading", part |-> part, character |-> character]
InvalidNamespacePartTrailing(part, character) ==
    [tag |-> "InvalidNamespacePartTrailing", part |-> part, character |-> character]

\* Result::is_ok
is_ok(r) == r.tag = "Ok"

(* ------------------- validate_task_name_with_error -------------------- *)

SEP == <<":", ":">>

\* Line 200 with char::is_alphanumeric, which holds of every Unicode letter.
invalid_char_unicode_alphanumeric(ch) ==
    ~(is_ascii_alphanumeric(ch) \/ ch = "U+00E9") /\ ch # "-" /\ ch # "_"

\* Line 200 with the colon let through as a permitted character.
invalid_char_colon_permitted(ch) ==
    ~is_ascii_alphanumeric(ch) /\ ch # "-" /\ ch # "_" /\ ch # ":"

\* Line 200: the character is outside the permitted set.
invalid_char(ch) == ~is_ascii_alphanumeric(ch) /\ ch # "-" /\ ch # "_"

\* Line 202 with the index in the part counted from 1.
char_position_one_based(name, part, idx) == unwrap_or(find(name, part), 0) + idx + 1

\* Line 202: the position reported for the character with index idx
\* (0-based) of part.
char_position(name, part, idx) == unwrap_or(find(name, part), 0) + idx

\* Lines 199-208 with the scan running to the end of the part, so that the
\* last character outside the permitted set is the one reported.
scan_part_last_invalid(name, part) ==
    LET bad == {i \in 1..Len(part) : invalid_char(part[i])}
    IN  IF bad = {} THEN Ok
        ELSE InvalidCharacter(part[Max(bad)], char_position(name, part, Max(bad) - 1))

\* Lines 199-208: the scan of one part; Ok when it finds nothing.
scan_part(name, part) ==
    LET bad == {i \in 1..Len(part) : invalid_char(part[i])}
    IN  IF bad = {} THEN Ok
        ELSE InvalidCharacter(part[Min(bad)], char_position(name, part, Min(bad) - 1))

\* Lines 193-226 with the edge checks of lines 210-226 made before the
\* character scan of lines 198-208.
check_part_edges_first(name, part) ==
    IF is_empty(part) THEN ConsecutiveNamespaceSeparators
    ELSE IF chars_next(part).some /\ chars_next(part).value \in {"-", "_"}
        THEN InvalidNamespacePartLeading(part, chars_next(part).value)
    ELSE IF chars_last(part).some /\ chars_last(part).value \in {"-", "_"}
        THEN InvalidNamespacePartTrailing(part, chars_last(part).value)
    ELSE scan_part(name, part)

\* Lines 193-226 without the check of the part's last character.
check_part_no_trailing(name, part) ==
    IF is_empty(part) THEN ConsecutiveNamespaceSeparators
    ELSE IF ~is_ok(scan_part(name, part)) THEN scan_part(name, part)
    ELSE IF chars_next(part).some /\ chars_next(part).value \in {"-", "_"}
        THEN InvalidNamespacePartLeading(part, chars_next(part).value)
    ELSE Ok

\* Lines 193-226 with the whole name reported as the part.
check_part_reports_name(name, part) ==
    IF is_empty(part) THEN ConsecutiveNamespaceSeparators
    ELSE IF ~is_ok(scan_part(name, part)) THEN scan_part(name, part)
    ELSE IF chars_next(part).some /\ chars_next(part).value \in {"-", "_"}
        THEN InvalidNamespacePartLeading(name, chars_next(part).value)
    ELSE IF chars_last(part).some /\ chars_last(part).value \in {"-", "_"}
        THEN InvalidNamespacePartTrailing(name, chars_last(part).value)
    ELSE Ok

\* Lines 193-226: the body of the loop for one part; Ok when the loop goes
\* on to the next part.
check_part(name, part) ==
    IF is_empty(part) THEN ConsecutiveNamespaceSeparators
    ELSE IF ~is_ok(scan_part(name, part)) THEN scan_part(name, part)
    ELSE IF chars_next(part).some /\ chars_next(part).value \in {"-", "_"}
        THEN InvalidNamespacePartLeading(part, chars_next(part).value)
    ELSE IF chars_last(part).some /\ chars_last(part).value \in {"-", "_"}
        THEN InvalidNamespacePartTrailing(part, chars_last(part).value)
    ELSE Ok

\* The index of the part at which the loop of line 192 returns, 0 when it
\* runs to its end.
failing_part(name, parts) ==
    LET bad == {i \in 1..Len(parts) : ~is_ok(check_part(name, parts[i]))}
    IN  IF bad = {} THEN 0 ELSE Min(bad)

\* Lines 190-229: the split and the loop over the parts.
validate_parts(name) ==
    LET parts == split(name, SEP)
        i == failing_part(name, parts)
    IN  IF i = 0 THEN Ok ELSE check_part(name, parts[i])

\* Line 148 with the limit itself rejected.
too_long_inclusive(name) == str_len(name) >= MAX_TASK_NAME_LENGTH

\* Line 148.
too_long(name) == str_len(name) > MAX_TASK_NAME_LENGTH

\* Lines 143-187 with the edge checks of lines 160-174 moved before the
\* whitespace check of line 156.
whole_name_checks_edges_first(name) ==
    IF is_empty(name) THEN Empty
    ELSE IF too_long(name) THEN TooLong(str_len(name), MAX_TASK_NAME_LENGTH)
    ELSE IF chars_next(name).some /\ chars_next(name).value \in {"-", "_"}
        THEN InvalidLeadingCharacter(chars_next(name).value)
    ELSE IF chars_last(name).some /\ chars_last(name).value \in {"-", "_"}
        THEN InvalidTrailingCharacter(chars_last(name).value)
    ELSE IF name # trim(name) THEN InvalidWhitespace
    ELSE IF contains(name, <<":", ":", ":", ":">>) \/ contains(name, <<":", ":", ":">>)
        THEN ConsecutiveNamespaceSeparators
    ELSE IF starts_with(name, SEP) THEN LeadingNamespaceSeparator
    ELSE IF ends_with(name, SEP) THEN TrailingNamespaceSeparator
    ELSE Ok

\* Lines 143-187 without the check of line 182 for a leading "::".
whole_name_checks_no_leading_separator(name) ==
    IF is_empty(name) THEN Empty
    ELSE IF too_long(name) THEN TooLong(str_len(name), MAX_TASK_NAME_LENGTH)
    ELSE IF name # trim(name) THEN InvalidWhitespace
    ELSE IF chars_next(name).some /\ chars_next(name).value \in {"-", "_"}
        THEN InvalidLeadingCharacter(chars_next(name).value)
    ELSE IF chars_last(name).some /\ chars_last(name).value \in {"-", "_"}
        THEN InvalidTrailingCharacter(chars_last(name).value)
    ELSE IF contains(name, <<":", ":", ":", ":">>) \/ contains(name, <<":", ":", ":">>)
        THEN ConsecutiveNamespaceSeparators
    ELSE IF ends_with(name, SEP) THEN TrailingNamespaceSeparator
    ELSE Ok

\* Lines 143-187 without the edge checks of lines 160-174.
whole_name_checks_no_edges(name) ==
    IF is_empty(name) THEN Empty
    ELSE IF too_long(name) THEN TooLong(str_len(name), MAX_TASK_NAME_LENGTH)
    ELSE IF name # trim(name) THEN InvalidWhitespace
    ELSE IF contains(name, <<":", ":", ":", ":">>) \/ contains(name, <<":", ":", ":">>)
        THEN ConsecutiveNamespaceSeparators
    ELSE IF starts_with(name, SEP) THEN LeadingNamespaceSeparator
    ELSE IF ends_with(name, SEP) THEN TrailingNamespaceSeparator
    ELSE Ok

\* Lines 143-187: the checks of the whole name, in the order of the code;
\* Ok when none returns.
whole_name_checks(name) ==
    IF is_empty(name) THEN Empty
    ELSE IF too_long(name) THEN TooLong(str_len(name), MAX_TASK_NAME_LENGTH)
    ELSE IF name # trim(name) THEN InvalidWhitespace
    ELSE IF chars_next(name).some /\ chars_next(name).value \in {"-", "_"}
        THEN InvalidLeadingCharacter(chars_next(name).value)
    ELSE IF chars_last(name).some /\ chars_last(name).value \in {"-", "_"}
        THEN InvalidTrailingCharacter(chars_last(name).value)
    ELSE IF contains(name, <<":", ":", ":", ":">>) \/ contains(name, <<":", ":", ":">>)
        THEN ConsecutiveNamespaceSeparators
    ELSE IF starts_with(name, SEP) THEN LeadingNamespaceSeparator
    ELSE IF ends_with(name, SEP) THEN TrailingNamespaceSeparator
    ELSE Ok

\* Lines 141-230.
validate_task_name_with_error(name) ==
    IF ~is_ok(whole_name_checks(name)) THEN whole_name_checks(name)
    ELSE validate_parts(name)

\* Lines 232-234 with the checks of the parts left out.
validate_task_name_whole_name_only(name) == is_ok(whole_name_checks(name))

\* Lines 232-234.
validate_task_name(name) == is_ok(validate_task_name_with_error(name))

(* ------------------------------ inputs -------------------------------- *)

\* All sequences over S of length at most n.
RECURSIVE SeqsUpTo(_, _)
SeqsUpTo(S, n) ==
    IF n = 0 THEN {<<>>}
    ELSE LET shorter == SeqsUpTo(S, n - 1)
         IN  shorter \cup {Append(s, c) : s \in {t \in shorter : Len(t) = n - 1}, c \in S}

\* n copies of the letter.
Letters(n) == [i \in 1..n |-> "a"]

\* What a long name starts and ends with: nothing, one character or "::".
Affixes == SeqsUpTo(Alphabet, 1) \cup {SEP}

LongNames ==
    {p \o Letters(n) \o q :
        p \in Affixes, q \in Affixes,
        n \in (MAX_TASK_NAME_LENGTH - LongSlack)..MAX_TASK_NAME_LENGTH}

Names == SeqsUpTo(ShortAlphabet, MaxLen) \cup SeqsUpTo(Alphabet, MaxWideLen) \cup LongNames

(* --------------------------- the state machine ------------------------ *)

\* name:   the string a caller holds and passes to the validator
\* result: what validate_task_name_with_error returned for it, if called
\* valid:  what validate_task_name returned for it, if called
\* frames: for each concurrent caller, the stack frame of its call of
\*         validate_task_name_with_error, run statement by statement
VARIABLES name, result, valid, frames

vars == <<name, result, valid, frames>>

NotCalled == [tag |-> "NotCalled"]

\* The threads that call the validator at the same time.
Callers == {"t1", "t2"}

\* The frame of a caller that is not in a call: pc is the line the call
\* stands at, name the argument, parts, part_i and idx the locals of lines
\* 190, 192 and 199 (part_i counts the parts taken from the iterator, idx is
\* the index of enumerate()), ret the value returned.
IdleFrame ==
    [pc |-> "idle", name |-> <<>>, parts |-> <<>>, part_i |-> 0, idx |-> 0,
     ret |-> NotCalled]

Init ==
    /\ name \in Names
    /\ result = NotCalled
    /\ valid = NotCalled
    /\ frames = [c \in Callers |-> IdleFrame]

CallValidateWithError ==
    /\ result = NotCalled
    /\ result' = validate_task_name_with_error(name)
    /\ UNCHANGED <<name, valid, frames>>

CallValidate ==
    /\ valid = NotCalled
    /\ valid' = [tag |-> "Returned", value |-> validate_task_name(name)]
    /\ UNCHANGED <<name, result, frames>>

Next == CallValidateWithError \/ CallValidate

Spec == Init /\ [][Next]_vars

(* ------------- validate_task_name_with_error, step by step ------------ *)

\* The names the concurrent callers pass: every short name, and one name
\* for each way through the function.
StepSamples ==
    { <<"a", ":", ":", "a">>, <<"a", ":", ":", "a", ":">>, <<"a", "-", ":", ":", "a">>,
      <<"a", ":", ":", "-", "a">>, <<"a", ":", ":", "a", "@">>, <<"a", ":", ":", ":", "a">>,
      <<":", ":", "a">>, <<"a", ":", ":">>, <<"a", "_">>, <<"U+00E9">>,
      Letters(MAX_TASK_NAME_LENGTH + 1) }

StepNames == SeqsUpTo(ShortAlphabet, StepLen) \cup StepSamples

\* return Err(r) / Ok(())
return(f, r) == [f EXCEPT !.pc = "done", !.ret = r]

goto(f, line) == [f EXCEPT !.pc = line]

\* The part the loop of line 192 is at.
current_part(f) == f.parts[f.part_i]

\* Lines 199-208 with the iterator never advanced.
scan_step_no_advance(f) ==
    IF f.idx = Len(current_part(f)) THEN goto(f, "l211")
    ELSE IF invalid_char(current_part(f)[f.idx + 1])
        THEN return(f, InvalidCharacter(current_part(f)[f.idx + 1],
                                        char_position(f.name, current_part(f), f.idx)))
    ELSE f

\* Lines 199-208: one turn of the loop over part.chars().enumerate().
scan_step(f) ==
    IF f.idx = Len(current_part(f)) THEN goto(f, "l211")
    ELSE IF invalid_char(current_part(f)[f.idx + 1])
        THEN return(f, InvalidCharacter(current_part(f)[f.idx + 1],
                                        char_position(f.name, current_part(f), f.idx)))
    ELSE [f EXCEPT !.idx = f.idx + 1]

\* Lines 143-229: the statement at f.pc.
step(f) ==
    CASE f.pc = "l143" ->
            IF is_empty(f.name) THEN return(f, Empty) ELSE goto(f, "l148")
      [] f.pc = "l148" ->
            IF too_long(f.name)
            THEN return(f, TooLong(str_len(f.name), MAX_TASK_NAME_LENGTH))
            ELSE goto(f, "l156")
      [] f.pc = "l156" ->
            IF f.name # trim(f.name) THEN return(f, InvalidWhitespace)
            ELSE goto(f, "l161")
      [] f.pc = "l161" ->
            IF chars_next(f.name).some /\ chars_next(f.name).value \in {"-", "_"}
            THEN return(f, InvalidLeadingCharacter(chars_next(f.name).value))
            ELSE goto(f, "l168")
      [] f.pc = "l168" ->
            IF chars_last(f.name).some /\ chars_last(f.name).value \in {"-", "_"}
            THEN return(f, InvalidTrailingCharacter(chars_last(f.name).value))
            ELSE goto(f, "l177")
      [] f.pc = "l177" ->
            IF contains(f.name, <<":", ":", ":", ":">>) \/ contains(f.name, <<":", ":", ":">>)
            THEN return(f, ConsecutiveNamespaceSeparators)
            ELSE goto(f, "l182")
      [] f.pc = "l182" ->
            IF starts_with(f.name, SEP) THEN return(f, LeadingNamespaceSeparator)
            ELSE goto(f, "l185")
      [] f.pc = "l185" ->
            IF ends_with(f.name, SEP) THEN return(f, TrailingNamespaceSeparator)
            ELSE goto(f, "l190")
      [] f.pc = "l190" ->
            [f EXCEPT !.pc = "l192", !.parts = split(f.name, SEP), !.part_i = 0]
      [] f.pc = "l192" ->
            IF f.part_i = Len(f.parts) THEN return(f, Ok)
            ELSE [f EXCEPT !.pc = "l194", !.part_i = f.part_i + 1]
      [] f.pc = "l194" ->
            IF is_empty(current_part(f)) THEN return(f, ConsecutiveNamespaceSeparators)
            ELSE [f EXCEPT !.pc = "l199", !.idx = 0]
      [] f.pc = "l199" -> scan_step(f)
      [] f.pc = "l211" ->
            IF chars_next(current_part(f)).some
               /\ chars_next(current_part(f)).value \in {"-", "_"}
            THEN return(f, InvalidNamespacePartLeading(current_part(f),
                                                       chars_next(current_part(f)).value))
            ELSE goto(f, "l219")
      [] f.pc = "l219" ->
            IF chars_last(current_part(f)).some
               /\ chars_last(current_part(f)).value \in {"-", "_"}
            THEN return(f, InvalidNamespacePartTrailing(current_part(f),
                                                        chars_last(current_part(f)).value))
            ELSE goto(f, "l192")

Running(f) == f.pc \notin {"idle", "done"}

InitSteps ==
    /\ name = <<>>
    /\ result = NotCalled
    /\ valid = NotCalled
    /\ frames = [c \in Callers |-> IdleFrame]

\* Caller c enters validate_task_name_with_error(n).
Call(c) ==
    /\ frames[c].pc = "idle"
    /\ \E n \in StepNames :
           frames' = [frames EXCEPT ![c] = [IdleFrame EXCEPT !.pc = "l143", !.name = n]]
    /\ UNCHANGED <<name, result, valid>>

\* One statement of c's call, with parts kept in one buffer all calls share.
Step_shared_parts(c) ==
    /\ Running(frames[c])
    /\ frames' = [d \in Callers |->
                     IF d = c THEN step(frames[c])
                     ELSE [frames[d] EXCEPT !.parts = step(frames[c]).parts]]
    /\ UNCHANGED <<name, result, valid>>

\* One statement of c's call.
Step(c) ==
    /\ Running(frames[c])
    /\ frames' = [frames EXCEPT ![c] = step(frames[c])]
    /\ UNCHANGED <<name, result, valid>>

\* Caller c takes the returned value; its frame is gone.
Return(c) ==
    /\ frames[c].pc = "done"
    /\ frames' = [frames EXCEPT ![c] = IdleFrame]
    /\ UNCHANGED <<name, result, valid>>

NextSteps == \E c \in Callers : Call(c) \/ Step(c) \/ Return(c)

\* A call runs on its caller's thread, which the scheduler keeps running.
SpecSteps ==
    InitSteps /\ [][NextSteps]_vars /\ \A c \in Callers : WF_vars(Step(c))

(* ---------------- the rules, as the specification words them ---------- *)

Called == result # NotCalled

EdgeChars == {"-", "_"}
Permitted(ch) == ch \in {"a", "1", "-", "_"}

Rule1(n) == Len(n) = 0
Rule2(n) == str_len(n) > MAX_TASK_NAME_LENGTH
Rule3(n) == Len(n) > 0 /\ (is_whitespace(n[1]) \/ is_whitespace(n[Len(n)]))
Rule4(n) == Len(n) > 0 /\ n[1] \in EdgeChars
Rule5(n) == Len(n) > 0 /\ n[Len(n)] \in EdgeChars
Rule6(n) == \E i \in 1..(Len(n) - 2) : n[i] = ":" /\ n[i + 1] = ":" /\ n[i + 2] = ":"
Rule7(n) == Len(n) >= 2 /\ n[1] = ":" /\ n[2] = ":"
Rule8(n) == Len(n) >= 2 /\ n[Len(n) - 1] = ":" /\ n[Len(n)] = ":"

\* Rule k holds of n.
RuleHolds(k, n) ==
    CASE k = 1 -> Rule1(n) [] k = 2 -> Rule2(n) [] k = 3 -> Rule3(n)
      [] k = 4 -> Rule4(n) [] k = 5 -> Rule5(n) [] k = 6 -> Rule6(n)
      [] k = 7 -> Rule7(n) [] k = 8 -> Rule8(n)

\* No rule numbered at most k holds of n.
PassesRules(k, n) == \A j \in 1..k : ~RuleHolds(j, n)

\* The reason of rule k for n.
RuleReason(k, n) ==
    CASE k = 1 -> Empty
      [] k = 2 -> TooLong(str_len(n), 256)
      [] k = 3 -> InvalidWhitespace
      [] k = 4 -> InvalidLeadingCharacter(n[1])
      [] k = 5 -> InvalidTrailingCharacter(n[Len(n)])
      [] k = 6 -> ConsecutiveNamespaceSeparators
      [] k = 7 -> LeadingNamespaceSeparator
      [] k = 8 -> TrailingNamespaceSeparator

SegmentReasons ==
    {"InvalidCharacter", "InvalidNamespacePartLeading", "InvalidNamespacePartTrailing"}

\* A segment that satisfies the single-segment rules.
SegmentOk(seg) ==
    /\ Len(seg) > 0
    /\ \A i \in 1..Len(seg) : Permitted(seg[i])
    /\ seg[1] \notin EdgeChars
    /\ seg[Len(seg)] \notin EdgeChars

Segments(n) == split(n, SEP)

AllSegmentsOk(n) == \A k \in 1..Len(Segments(n)) : SegmentOk(Segments(n)[k])

(* ------------------------------- claims ------------------------------- *)

\* C1: when at least one of the eight whole-name rules holds of the name,
\* the outcome is the reason of the lowest-numbered rule that holds; a
\* per-segment reason is returned only when none of the eight holds.
C1_FirstMatchWins ==
    Called =>
        /\ \A k \in 1..8 :
               (RuleHolds(k, name) /\ PassesRules(k - 1, name))
                   => result = RuleReason(k, name)
        /\ result.tag \in SegmentReasons => PassesRules(8, name)

\* "-a " breaks rules 3 and 4 and is reported as whitespace (rule 3).
C1_Witness ==
    /\ name = <<"-", "a", " ">>
    /\ Rule3(name) /\ Rule4(name)
    /\ result = InvalidWhitespace

\* C2: the outcome is Ok exactly for the non-empty names of at most 256
\* bytes whose segments all satisfy the single-segment rules.
C2_AcceptedIffSegmentsOk ==
    Called =>
        (is_ok(result) <=>
            (Len(name) > 0 /\ str_len(name) <= 256 /\ AllSegmentsOk(name)))

\* "a::a" is accepted.
C2_Witness ==
    /\ name = <<"a", ":", ":", "a">>
    /\ Len(Segments(name)) = 2
    /\ is_ok(result)

\* C3: the boolean form is true exactly when the detailed form is Ok.
C3_BoolAgrees ==
    (Called /\ valid # NotCalled) => (valid.value <=> is_ok(result))

\* Both forms were called on "a:a", and both reject it.
C3_Witness ==
    /\ Called /\ valid # NotCalled
    /\ ~is_ok(result) /\ ~valid.value
    /\ name = <<"a", ":", "a">>

\* The index (1-based) of the first character of segment k of parts in the
\* name the parts were split from.
RECURSIVE SegmentStart(_, _)
SegmentStart(parts, k) ==
    IF k = 1 THEN 1 ELSE SegmentStart(parts, k - 1) + Len(parts[k - 1]) + Len(SEP)

\* The index (0-based) in the name of the character the segment scan stops
\* at: the first character outside the permitted set of the first segment
\* at which the loop returns.
ScanStop(n) ==
    LET parts == Segments(n)
        k == failing_part(n, parts)
        bad == {i \in 1..Len(parts[k]) : ~Permitted(parts[k][i])}
    IN  SegmentStart(parts, k) + Min(bad) - 2

\* C4: the position of InvalidCharacter is the index in the name of the
\* character the scan stopped at.
C4_PositionIsIndexInName ==
    (Called /\ result.tag = "InvalidCharacter") => result.position = ScanStop(name)

\* C5: a name of more than 256 bytes is rejected with TooLong carrying its
\* length in bytes, a name of at most 256 bytes never is, and a name of
\* exactly 256 bytes that satisfies the other rules is accepted.
C5_LengthBoundary ==
    Called =>
        /\ str_len(name) > 256 => result = TooLong(str_len(name), 256)
        /\ str_len(name) <= 256 => result.tag # "TooLong"
        /\ (str_len(name) = 256 /\ AllSegmentsOk(name)) => is_ok(result)
        /\ (str_len(name) = 257 /\ AllSegmentsOk(name)) => result = TooLong(257, 256)

\* A name of 257 bytes that also ends in whitespace is reported as TooLong.
C5_Witness ==
    /\ str_len(name) = 257
    /\ Rule3(name)
    /\ result = TooLong(257, 256)

\* C6: a name with a character outside the ASCII letters, the ASCII digits,
\* '_', ':' and '-' is rejected.
C6_ForeignCharacterRejected ==
    (Called /\ \E i \in 1..Len(name) : ~Permitted(name[i]) /\ name[i] # ":")
        => ~is_ok(result)

\* A non-ASCII letter between two letters is rejected.
C6_Witness ==
    /\ name = <<"a", "U+00E9", "a">>
    /\ result = InvalidCharacter("U+00E9", 1)

\* C7: a namespaced name that passes rules 1-4 and ends with '-' or '_' is
\* reported as InvalidTrailingCharacter, one that passes rules 1-3 and starts
\* with '-' or '_' as InvalidLeadingCharacter; InvalidNamespacePartLeading is
\* never reported for the first segment, InvalidNamespacePartTrailing never
\* for the last.
C7_WholeNameEdgesWin ==
    Called =>
        /\ (contains(name, SEP) /\ PassesRules(4, name) /\ Rule5(name))
               => result = InvalidTrailingCharacter(name[Len(name)])
        /\ (contains(name, SEP) /\ PassesRules(3, name) /\ Rule4(name))
               => result = InvalidLeadingCharacter(name[1])
        /\ result.tag = "InvalidNamespacePartLeading"
               => failing_part(name, Segments(name)) # 1
        /\ result.tag = "InvalidNamespacePartTrailing"
               => failing_part(name, Segments(name)) # Len(Segments(name))

\* "a::a-": the last segment ends with '-', reported for the whole name.
C7_Witness ==
    /\ name = <<"a", ":", ":", "a", "-">>
    /\ result = InvalidTrailingCharacter("-")

\* The lengths of the maximal runs of ':' in n, by the index they start at.
RunStarts(n) == {i \in 1..Len(n) : n[i] = ":" /\ (i = 1 \/ n[i - 1] # ":")}
RunLen(n, i) == Min({j \in i..(Len(n) + 1) : j = Len(n) + 1 \/ n[j] # ":"}) - i

\* The lone colons of n.
LoneColons(n) == {i \in RunStarts(n) : RunLen(n, i) = 1}

\* No check that the code makes before it scans the character with index p
\* rejects n: none of the eight whole-name rules holds, the segments that
\* end before p satisfy the segment rules and the characters before p of
\* the segment of p are permitted.
NothingFiresBefore(n, p) ==
    LET before == Segments(SubSeq(n, 1, p - 1))
    IN  /\ PassesRules(8, n)
        /\ \A k \in 1..(Len(before) - 1) : SegmentOk(before[k])
        /\ \A i \in 1..Len(before[Len(before)]) : Permitted(before[Len(before)][i])

\* C8: a name with a maximal run of ':' of a length other than 2 is
\* rejected; a run of three or more by the consecutive-separator rule when
\* rules 1-5 pass, a lone ':' with InvalidCharacter carrying ':' when no
\* earlier check fires.
C8_ColonRunsOfTwoOnly ==
    Called =>
        /\ (\E i \in RunStarts(name) : RunLen(name, i) # 2) => ~is_ok(result)
        /\ (PassesRules(5, name) /\ \E i \in RunStarts(name) : RunLen(name, i) >= 3)
               => result = ConsecutiveNamespaceSeparators
        /\ (LoneColons(name) # {} /\ NothingFiresBefore(name, Min(LoneColons(name))))
               => (result.tag = "InvalidCharacter" /\ result.character = ":")

\* "a:a": the lone colon is reported as an invalid character.
C8_Witness ==
    /\ name = <<"a", ":", "a">>
    /\ LoneColons(name) = {2}
    /\ result = InvalidCharacter(":", 1)

\* C9: the part of InvalidNamespacePartLeading (InvalidNamespacePartTrailing)
\* is the text of a segment of the name, and the character is that segment's
\* first (last) character and is '-' or '_'.
C9_PartIsSegment ==
    Called =>
        /\ result.tag = "InvalidNamespacePartLeading" =>
               /\ \E k \in 1..Len(Segments(name)) : Segments(name)[k] = result.part
               /\ result.character = result.part[1]
               /\ result.character \in EdgeChars
        /\ result.tag = "InvalidNamespacePartTrailing" =>
               /\ \E k \in 1..Len(Segments(name)) : Segments(name)[k] = result.part
               /\ result.character = result.part[Len(result.part)]
               /\ result.character \in EdgeChars

\* "a::-a" reports the part "-a" and the character '-'.
C9_Witness ==
    /\ name = <<"a", ":", ":", "-", "a">>
    /\ result = InvalidNamespacePartLeading(<<"-", "a">>, "-")

\* What the per-segment checks find in a segment, in the order character
\* scan, leading edge, trailing edge: the reason, or Ok.
SegmentFinding(seg) ==
    LET bad == {i \in 1..Len(seg) : ~Permitted(seg[i])}
    IN  IF bad # {} THEN [tag |-> "InvalidCharacter", character |-> seg[Min(bad)]]
        ELSE IF Len(seg) > 0 /\ seg[1] \in EdgeChars
            THEN InvalidNamespacePartLeading(seg, seg[1])
        ELSE IF Len(seg) > 0 /\ seg[Len(seg)] \in EdgeChars
            THEN InvalidNamespacePartTrailing(seg, seg[Len(seg)])
        ELSE Ok

\* The segments of n in which the per-segment checks find something.
FaultySegments(n) ==
    {k \in 1..Len(Segments(n)) : ~is_ok(SegmentFinding(Segments(n)[k]))}

\* C13: for a name that passes the eight whole-name rules, the outcome is
\* what the checks find in the leftmost faulty segment, and inside that
\* segment the character scan goes before the leading-edge check, which goes
\* before the trailing-edge check.
C13_SegmentsInOrder ==
    (Called /\ PassesRules(8, name) /\ FaultySegments(name) # {}) =>
        LET found == SegmentFinding(Segments(name)[Min(FaultySegments(name))])
        IN  IF found.tag = "InvalidCharacter"
            THEN result.tag = "InvalidCharacter" /\ result.character = found.character
            ELSE result = found

\* "a-::@": the trailing '-' of the first segment is reported, not the '@'
\* of the second.
C13_Witness ==
    /\ name = <<"a", "-", ":", ":", "@">>
    /\ FaultySegments(name) = {1, 2}
    /\ result = InvalidNamespacePartTrailing(<<"a", "-">>, "-")

\* C14: ConsecutiveNamespaceSeparators is returned exactly for the names
\* that pass rules 1-5 and contain ":::"; a name that passes the eight rules
\* splits into non-empty segments only, so the re-check of line 194 never
\* returns.
C14_ConsecutiveOnlyFromRule6 ==
    Called =>
        /\ result = ConsecutiveNamespaceSeparators
               <=> (PassesRules(5, name) /\ Rule6(name))
        /\ PassesRules(8, name)
               => \A k \in 1..Len(Segments(name)) : Segments(name)[k] # <<>>

\* "a:::a" is rejected by rule 6.
C14_Witness ==
    /\ name = <<"a", ":", ":", ":", "a">>
    /\ result = ConsecutiveNamespaceSeparators

\* The indices (1-based) of the characters of n that segment k covers.
SegmentSpan(n, k) ==
    SegmentStart(Segments(n), k)..(SegmentStart(Segments(n), k) + Len(Segments(n)[k]) - 1)

\* The indices of the characters of n that are neither permitted nor a colon
\* of a "::" separator: the characters outside the permitted set that lie in
\* a segment.
ForeignInSegments(n) ==
    {i \in 1..Len(n) : ~Permitted(n[i]) /\ \E k \in 1..Len(Segments(n)) : i \in SegmentSpan(n, k)}

\* C15: the character of InvalidCharacter is the leftmost character of the
\* name that is neither permitted nor a separator colon, and the segments to
\* the left of its segment satisfy the segment rules.
C15_LeftmostForeignCharacter ==
    (Called /\ result.tag = "InvalidCharacter") =>
        /\ ForeignInSegments(name) # {}
        /\ result.character = name[Min(ForeignInSegments(name))]
        /\ \A k \in 1..Len(Segments(name)) :
               (\A i \in SegmentSpan(name, k) : i < Min(ForeignInSegments(name)))
                   => SegmentOk(Segments(name)[k])

\* "a::@:": the '@' is reported, not the lone colon after it, and the segment before it is clean.
C15_Witness ==
    /\ name = <<"a", ":", ":", "@", ":">>
    /\ Min(ForeignInSegments(name)) = 4
    /\ result.tag = "InvalidCharacter" /\ result.character = "@"

IsAscii(n) == \A i \in 1..Len(n) : len_utf8(n[i]) = 1

\* C16: for a name of ASCII characters the position of InvalidCharacter is an
\* index of the name and the character at that index is the one reported.
C16_PositionHoldsCharacter ==
    (Called /\ result.tag = "InvalidCharacter" /\ IsAscii(name)) =>
        /\ 0 <= result.position /\ result.position < Len(name)
        /\ name[result.position + 1] = result.character

\* "a::a:": the search finds "a:" at offset 0, before the segment itself;
\* position 1 is not the scanned colon's index but holds a ':' all the same.
C16_Witness ==
    /\ name = <<"a", ":", ":", "a", ":">>
    /\ result = InvalidCharacter(":", 1)
    /\ result.position # ScanStop(name)

\* The tags of Ok and of the eleven reasons of TaskNameValidationError.
OutcomeTags ==
    {"Ok", "Empty", "TooLong", "InvalidWhitespace", "InvalidLeadingCharacter",
     "InvalidTrailingCharacter", "ConsecutiveNamespaceSeparators",
     "LeadingNamespaceSeparator", "TrailingNamespaceSeparator", "InvalidCharacter",
     "InvalidNamespacePartLeading", "InvalidNamespacePartTrailing"}

\* C11: every call that was entered returns, and what it returns is Ok or
\* one reason of the closed set of eleven; a call that has not returned has
\* produced no outcome.
C11_TotalAndTerminating ==
    \A c \in Callers :
        /\ [](frames[c].pc = "done" => frames[c].ret.tag \in OutcomeTags)
        /\ [](Running(frames[c]) => frames[c].ret = NotCalled)
        /\ (Running(frames[c]) ~> frames[c].pc = "done")

\* A call on "a::a" has gone through both loops and returned Ok.
C11_Witness ==
    \E c \in Callers :
        /\ frames[c].pc = "done"
        /\ frames[c].name = <<"a", ":", ":", "a">>
        /\ frames[c].part_i = 2 /\ frames[c].idx = 1
        /\ frames[c].ret = Ok

\* C12: whatever the interleaving, a call returns what the function returns
\* for its own argument, and a statement of one call changes the frame of no
\* other call.
C12_CallsIndependent ==
    /\ [](\A c \in Callers :
             frames[c].pc = "done"
                 => frames[c].ret = validate_task_name_with_error(frames[c].name))
    /\ [][\E c \in Callers : \A d \in Callers \ {c} : frames'[d] = frames[d]]_vars

\* One call has returned for "a-::a" while another, on "a::a:", is in the
\* middle of the scan of its second part.
C12_Witness ==
    \E c, d \in Callers :
        /\ c # d
        /\ frames[c].pc = "done"
        /\ frames[c].ret = InvalidNamespacePartTrailing(<<"a", "-">>, "-")
        /\ frames[d].pc = "l199"
        /\ frames[d].name = <<"a", ":", ":", "a", ":">>
        /\ frames[d].part_i = 2

====
